---------------------------- MODULE Spec2Model ----------------------------
(***************************************************************************)
(* The Best of Brock Cookbook: recipe multiplier, kitchen timer and        *)
(* shopping list, modelled from src/unnamed/part_000 and                   *)
(* src/epub_work/OEBPS/Misc/Shopping.js.                                   *)
(*                                                                         *)
(* Strings are TLA+ strings (TLC evaluates Len, \o and SubSeq on them).    *)
(* The module is kept ASCII: each Unicode vulgar-fraction glyph of the     *)
(* source is written as one ASCII stand-in character (see Glyph table).    *)
(* JavaScript numbers are modelled as exact rationals [n, d] plus the two  *)
(* non-finite values NaN and Infinity; binary rounding is not modelled.    *)
(***************************************************************************)
EXTENDS Integers, Sequences, FiniteSets, TLC

VARIABLES
    \* ---- kitchen timer (part_000:163-166 and the DOM fields it uses)
    timerInterval,   \* handle of the schedule the code remembers, or NULL
    totalSeconds,    \* remaining count
    isRunning,
    isPaused,
    hoursField,      \* value of <input id="hours">
    minField,        \* value of <input id="min">
    secField,        \* value of <input id="sec">
    live,            \* browser side: handles of the schedules not yet cleared
    alertShown,      \* alertCard displayed
    \* history of the most recent run (observers, never read by the code)
    runState,        \* "none" | "active" | "completed" | "reset"
    startN,          \* count the run was started with
    ticks,           \* ticks delivered to the run so far
    disturbed,       \* the run has been paused at least once
    completions,     \* completion notifications fired for the run
    \* ---- recipe multiplier (DOM fields read and written by Calculate)
    oldField,        \* value of <input id="old">
    newField,        \* value of <input id="new">
    area,            \* value of <textarea id="area">
    results,         \* value of <textarea id="results">
    ratioShown,      \* ratio displayed by showRatio, or NoRatio
    lastCalc,        \* outcome of the last Calculate on the current inputs
    prevResults,     \* results text just before the last Calculate
    \* ---- quantity round trip
    rtWhole, rtIdx, rtText, rtValue, rtPhase,
    \* ---- shopping list (DOM fields read and written by createList)
    shopArea,        \* value of <textarea id="area"> of the shopping page
    shopExclude,     \* value of <textarea id="area_1">
    shopItems,       \* text of the .shopping-item elements, in order
    clipboard,
    shopPass,        \* 0 new input, 1 list made from it, 2 the copied list
                     \* pasted back as input, 3 list made from that
    firstInput,      \* the items the first createList read
    firstItems       \* shopItems after the first createList

timerVars == <<timerInterval, totalSeconds, isRunning, isPaused, hoursField,
               minField, secField, live, alertShown, runState, startN, ticks,
               disturbed, completions>>
scaleVars == <<oldField, newField, area, results, ratioShown, lastCalc,
               prevResults>>
rtVars == <<rtWhole, rtIdx, rtText, rtValue, rtPhase>>
shopVars == <<shopArea, shopExclude, shopItems, clipboard, shopPass,
              firstInput, firstItems>>
vars == <<timerVars, scaleVars, rtVars, shopVars>>

-----------------------------------------------------------------------------
(* Strings *)

Char(s, i) == IF i >= 1 /\ i <= Len(s) THEN SubSeq(s, i, i) ELSE ""

\* The element of a one-element set.  The({F(x) : x \in {e}}) is F(e) with e
\* evaluated once: the idiom used below for "var x = e; ... x ... x ...".
The(S) == CHOOSE x \in S : TRUE

\* JavaScript \s and String.prototype.trim whitespace, over the model's alphabet
IsSpace(c) == c \in {" ", "\t", "\n"}

\* JavaScript \d
IsDigit(c) == c \in {"0", "1", "2", "3", "4", "5", "6", "7", "8", "9"}

DigitVal(c) ==
    CASE c = "0" -> 0 [] c = "1" -> 1 [] c = "2" -> 2 [] c = "3" -> 3
      [] c = "4" -> 4 [] c = "5" -> 5 [] c = "6" -> 6 [] c = "7" -> 7
      [] c = "8" -> 8 [] c = "9" -> 9

DigitChar(k) == Char("0123456789", k + 1)

\* index of the first position >= i of s at which P fails (Len(s)+1 if none)
RECURSIVE SkipWhile(_, _, _)
SkipWhile(P(_), s, i) ==
    IF i > Len(s) \/ ~P(Char(s, i)) THEN i ELSE SkipWhile(P, s, i + 1)

\* index of the last position <= i of s at which P fails (0 if none)
RECURSIVE SkipBack(_, _, _)
SkipBack(P(_), s, i) ==
    IF i < 1 \/ ~P(Char(s, i)) THEN i ELSE SkipBack(P, s, i - 1)

\* String.prototype.trim
Trim(s) ==
    LET b == SkipWhile(IsSpace, s, 1)
        e == SkipBack(IsSpace, s, Len(s))
    IN IF b > e THEN "" ELSE SubSeq(s, b, e)

\* first index >= i at which string t occurs in s, 0 if none (indexOf)
RECURSIVE IndexFrom(_, _, _)
IndexFrom(s, t, i) ==
    IF i + Len(t) - 1 > Len(s) THEN 0
    ELSE IF SubSeq(s, i, i + Len(t) - 1) = t THEN i
    ELSE IndexFrom(s, t, i + 1)

IndexOf(s, t) == IndexFrom(s, t, 1)

\* s.split('\n'): the sequence of the pieces between newlines (never empty)
RECURSIVE Split(_)
Split(s) ==
    LET k == IndexOf(s, "\n")
    IN IF k = 0 THEN <<s>>
       ELSE <<SubSeq(s, 1, k - 1)>> \o Split(SubSeq(s, k + 1, Len(s)))

\* lines.join('\n')
RECURSIVE Join(_)
Join(ls) ==
    IF Len(ls) = 0 THEN ""
    ELSE IF Len(ls) = 1 THEN ls[1]
    ELSE ls[1] \o "\n" \o Join(Tail(ls))

\* parseInt(m, 10) on a run of digits
RECURSIVE DigitsToNat(_)
DigitsToNat(s) ==
    IF s = "" THEN 0
    ELSE 10 * DigitsToNat(SubSeq(s, 1, Len(s) - 1)) + DigitVal(Char(s, Len(s)))

\* '' + k for a natural number k
RECURSIVE NatToStr(_)
NatToStr(k) ==
    IF k < 10 THEN DigitChar(k) ELSE NatToStr(k \div 10) \o DigitChar(k % 10)

RECURSIVE Pow10(_)
Pow10(k) == IF k = 0 THEN 1 ELSE 10 * Pow10(k - 1)

-----------------------------------------------------------------------------
(* Numbers: exact rationals n/d (d > 0, lowest terms), NaN = 0/0 and       *)
(* Infinity = 1/0.  Only non-negative values and the arithmetic the source *)
(* performs on them are needed, except for the sign parseFloat may read.   *)

RECURSIVE Gcd(_, _)
Gcd(a, b) == IF b = 0 THEN a ELSE Gcd(b, a % b)

Abs(k) == IF k < 0 THEN -k ELSE k

NaN == [n |-> 0, d |-> 0]
Infinity == [n |-> 1, d |-> 0]

IsNaN(v) == v.d = 0 /\ v.n = 0
IsFinite(v) == v.d > 0

Rat(n, d) ==
    LET g == Gcd(Abs(n), d) IN [n |-> n \div g, d |-> d \div g]

IntNum(k) == [n |-> k, d |-> 1]

\* a + b
NumAdd(a, b) ==
    IF IsNaN(a) \/ IsNaN(b) THEN NaN
    ELSE IF ~IsFinite(a) \/ ~IsFinite(b) THEN Infinity
    ELSE Rat(a.n * b.d + b.n * a.d, a.d * b.d)

\* a - b
NumSub(a, b) ==
    IF IsNaN(a) \/ IsNaN(b) THEN NaN
    ELSE IF ~IsFinite(a) /\ ~IsFinite(b) THEN NaN
    ELSE IF ~IsFinite(a) THEN Infinity
    ELSE Rat(a.n * b.d - b.n * a.d, a.d * b.d)

\* a * b, for a, b >= 0
NumMul(a, b) ==
    IF IsNaN(a) \/ IsNaN(b) THEN NaN
    ELSE IF ~IsFinite(a) THEN (IF b.n = 0 THEN NaN ELSE Infinity)
    ELSE IF ~IsFinite(b) THEN (IF a.n = 0 THEN NaN ELSE Infinity)
    ELSE Rat(a.n * b.n, a.d * b.d)

\* a / b, for finite a >= 0 and b >= 0
NumDiv(a, b) ==
    IF IsNaN(a) \/ IsNaN(b) THEN NaN
    ELSE IF b.n = 0 THEN (IF a.n = 0 THEN NaN ELSE Infinity)
    ELSE Rat(a.n * b.d, a.d * b.n)

\* a < b (false when either is NaN)
NumLess(a, b) ==
    IF IsNaN(a) \/ IsNaN(b) THEN FALSE
    ELSE IF ~IsFinite(a) THEN FALSE
    ELSE IF ~IsFinite(b) THEN TRUE
    ELSE a.n * b.d < b.n * a.d

\* a <= 0 (false for NaN and Infinity)
NumLeqZero(a) == IsFinite(a) /\ a.n <= 0

\* Math.abs
NumAbs(a) == IF IsFinite(a) THEN [n |-> Abs(a.n), d |-> a.d] ELSE a

\* Math.floor, for a >= 0
NumFloor(a) == IF IsFinite(a) THEN IntNum(a.n \div a.d) ELSE a

\* The decimal digits after the point of num/den < 1, den dividing a power of 10
RECURSIVE FracDigits(_, _)
FracDigits(num, den) ==
    IF num = 0 THEN ""
    ELSE DigitChar((num * 10) \div den) \o FracDigits((num * 10) % den, den)

\* The doubles nearest 1/3, 2/3, 1/6 and 5/6 and the decimal text JavaScript
\* gives them, which parseFloat reads back as the same double.  The model
\* writes each of these doubles as the rational it approximates.
RepeatingLiterals ==
    << [v |-> Rat(1, 3), s |-> "0.3333333333333333"],
       [v |-> Rat(2, 3), s |-> "0.6666666666666666"],
       [v |-> Rat(1, 6), s |-> "0.16666666666666666"],
       [v |-> Rat(5, 6), s |-> "0.8333333333333334"] >>

\* Number-to-string conversion ('' + v) of a finite v >= 0 that is either one
\* of the repeating literals or has a terminating decimal expansion
NumberToString(v) ==
    IF \E i \in 1..Len(RepeatingLiterals) : RepeatingLiterals[i].v = v
    THEN LET i == CHOOSE j \in 1..Len(RepeatingLiterals) :
                      RepeatingLiterals[j].v = v
         IN RepeatingLiterals[i].s
    ELSE LET w == v.n \div v.d
             r == v.n % v.d
         IN IF r = 0 THEN NatToStr(w)
            ELSE NatToStr(w) \o "." \o FracDigits(r, v.d)

\* the value of the decimal literal ip.fp (either part may be empty)
DecimalValue(ip, fp) ==
    IF ip = "" /\ fp = "" THEN NaN
    ELSE IF \E m \in 1..Len(RepeatingLiterals) :
                RepeatingLiterals[m].s = ip \o "." \o fp
    THEN RepeatingLiterals[CHOOSE m \in 1..Len(RepeatingLiterals) :
                               RepeatingLiterals[m].s = ip \o "." \o fp].v
    ELSE Rat(DigitsToNat(ip) * Pow10(Len(fp)) + DigitsToNat(fp), Pow10(Len(fp)))

\* the literal whose integer part is str[i..j-1]
DecimalFrom(str, i, j) ==
    IF Char(str, j) = "."
    THEN The({ DecimalValue(SubSeq(str, i, j - 1), SubSeq(str, j + 1, k - 1)) :
                 k \in {SkipWhile(IsDigit, str, j + 1)} })
    ELSE DecimalValue(SubSeq(str, i, j - 1), "")

\* the unsigned literal starting at position i of str
UnsignedFrom(str, i) ==
    The({ DecimalFrom(str, i, j) : j \in {SkipWhile(IsDigit, str, i)} })

\* -v
NumNeg(v) == [n |-> -v.n, d |-> v.d]

\* parseFloat: skips leading white space, reads the longest prefix of the
\* form [-]digits[.digits] or [-].digits, ignores what follows, and gives NaN
\* when there is no such prefix.  (Exponents and the word Infinity are not
\* in the alphabet of the model's inputs.)
ParseFloat(str) ==
    The({ IF Char(str, b) = "-" THEN The({ NumNeg(v) : v \in {UnsignedFrom(str, b + 1)} })
          ELSE UnsignedFrom(str, b) :
            b \in {SkipWhile(IsSpace, str, 1)} })

-----------------------------------------------------------------------------
(* Glyph table: the ASCII stand-in of each Unicode character of the source *)

U00BC == "!"    \* one quarter
U00BD == "@"    \* one half
U00BE == "#"    \* three quarters
U2150 == "["    \* one seventh   (in the pattern of Calculate only)
U2151 == "]"    \* one ninth     (in the pattern of Calculate only)
U2152 == "|"    \* one tenth     (in the pattern of Calculate only)
U2153 == "$"    \* one third
U2154 == "%"    \* two thirds
U2155 == "^"    \* one fifth
U2156 == "&"    \* two fifths
U2157 == "*"    \* three fifths
U2158 == "~"    \* four fifths
U2159 == ":"    \* one sixth
U215A == "_"    \* five sixths
U215B == "+"    \* one eighth
U215C == "="    \* three eighths
U215D == "{"    \* five eighths
U215E == "}"    \* seven eighths

-----------------------------------------------------------------------------
(* parseQuantity, part_000:5-47 *)

unicodeFracs ==
    << [g |-> U00BC, v |-> Rat(1, 4)], [g |-> U00BD, v |-> Rat(1, 2)],
       [g |-> U00BE, v |-> Rat(3, 4)], [g |-> U2153, v |-> Rat(1, 3)],
       [g |-> U2154, v |-> Rat(2, 3)], [g |-> U2155, v |-> Rat(1, 5)],
       [g |-> U2156, v |-> Rat(2, 5)], [g |-> U2157, v |-> Rat(3, 5)],
       [g |-> U2158, v |-> Rat(4, 5)], [g |-> U2159, v |-> Rat(1, 6)],
       [g |-> U215A, v |-> Rat(5, 6)], [g |-> U215B, v |-> Rat(1, 8)],
       [g |-> U215C, v |-> Rat(3, 8)], [g |-> U215D, v |-> Rat(5, 8)],
       [g |-> U215E, v |-> Rat(7, 8)] >>

\* str.replace(t, r) with a string pattern: the first occurrence only
ReplaceFirst(str, t, r) ==
    LET k == IndexOf(str, t)
    IN IF k = 0 THEN str
       ELSE SubSeq(str, 1, k - 1) \o r \o SubSeq(str, k + Len(t), Len(str))

\* the for-in loop of lines 19-23, from table entry i on
RECURSIVE ReplaceUnicodeFracs(_, _)
ReplaceUnicodeFracs(str, i) ==
    IF i > Len(unicodeFracs) THEN str
    ELSE ReplaceUnicodeFracs(
             ReplaceFirst(str, unicodeFracs[i].g,
                          " " \o NumberToString(unicodeFracs[i].v)),
             i + 1)

\* /^(\d+)\s+(\d+)\s*\/\s*(\d+)$/ : the three groups, or <<>> when no match
MixedMatch(str) ==
    LET a == SkipWhile(IsDigit, str, 1)
        b == SkipWhile(IsSpace, str, a)
        c == SkipWhile(IsDigit, str, b)
        d == SkipWhile(IsSpace, str, c)
        e == SkipWhile(IsSpace, str, d + 1)
        f == SkipWhile(IsDigit, str, e)
    IN IF a > 1 /\ b > a /\ c > b /\ Char(str, d) = "/" /\ f > e
          /\ f = Len(str) + 1
       THEN <<SubSeq(str, 1, a - 1), SubSeq(str, b, c - 1), SubSeq(str, e, f - 1)>>
       ELSE <<>>

\* /^(\d+)\s*\/\s*(\d+)$/
FracMatch(str) ==
    LET a == SkipWhile(IsDigit, str, 1)
        d == SkipWhile(IsSpace, str, a)
        e == SkipWhile(IsSpace, str, d + 1)
        f == SkipWhile(IsDigit, str, e)
    IN IF a > 1 /\ Char(str, d) = "/" /\ f > e /\ f = Len(str) + 1
       THEN <<SubSeq(str, 1, a - 1), SubSeq(str, e, f - 1)>>
       ELSE <<>>

IsDigitOrDot(c) == IsDigit(c) \/ c = "."

\* /^(\d+)\s+([\d.]+)$/
MixedDecMatch(str) ==
    LET a == SkipWhile(IsDigit, str, 1)
        b == SkipWhile(IsSpace, str, a)
        c == SkipWhile(IsDigitOrDot, str, b)
    IN IF a > 1 /\ b > a /\ c > b /\ c = Len(str) + 1
       THEN <<SubSeq(str, 1, a - 1), SubSeq(str, b, c - 1)>>
       ELSE <<>>

\* parseInt(w, 10) + parseInt(n, 10) / parseInt(d, 10)
MixedValue(w, n, d) ==
    The({ NumAdd(IntNum(DigitsToNat(w)), q) :
            q \in {NumDiv(IntNum(DigitsToNat(n)), IntNum(DigitsToNat(d)))} })

\* parseInt(w, 10) + parseFloat(f)
MixedDecValue(w, f) ==
    The({ NumAdd(IntNum(DigitsToNat(w)), q) : q \in {ParseFloat(f)} })

\* lines 32-46, once the mixed-number pattern has failed, without the "mixed
\* with replaced unicode" branch of lines 38-42
ParseNotMixedNoMixedDec(str, fracMatch, mixedDec) ==
    IF fracMatch # <<>>
    THEN NumDiv(IntNum(DigitsToNat(fracMatch[1])),
                IntNum(DigitsToNat(fracMatch[2])))
    ELSE ParseFloat(str)

\* lines 32-46, once the mixed-number pattern has failed
ParseNotMixed(str, fracMatch, mixedDec) ==
    IF fracMatch # <<>>
    THEN NumDiv(IntNum(DigitsToNat(fracMatch[1])),
                IntNum(DigitsToNat(fracMatch[2])))
    ELSE IF mixedDec # <<>> THEN MixedDecValue(mixedDec[1], mixedDec[2])
    ELSE ParseFloat(str)

\* lines 26-46: the value of the string left by the replacements
ParseReplaced(str) ==
    The({ IF mixedMatch # <<>>
          THEN MixedValue(mixedMatch[1], mixedMatch[2], mixedMatch[3])
          ELSE The({ ParseNotMixed(str, fracMatch, mixedDec) :
                       fracMatch \in {FracMatch(str)},
                       mixedDec \in {MixedDecMatch(str)} }) :
            mixedMatch \in {MixedMatch(str)} })

parseQuantity(str0) ==
    IF Trim(str0) = "" THEN NaN
    ELSE The({ ParseReplaced(str) :
                 str \in {Trim(ReplaceUnicodeFracs(Trim(str0), 1))} })

-----------------------------------------------------------------------------
(* formatQuantity, part_000:50-78 *)

fractions ==
    << [f |-> Rat(1, 8), g |-> U215B], [f |-> Rat(1, 6), g |-> "1/6"],
       [f |-> Rat(1, 4), g |-> U00BC], [f |-> Rat(1, 3), g |-> U2153],
       [f |-> Rat(3, 8), g |-> U215C], [f |-> Rat(1, 2), g |-> U00BD],
       [f |-> Rat(5, 8), g |-> U215D], [f |-> Rat(2, 3), g |-> U2154],
       [f |-> Rat(3, 4), g |-> U00BE], [f |-> Rat(5, 6), g |-> "5/6"],
       [f |-> Rat(7, 8), g |-> U215E] >>

\* 0.04 and 0.96, lines 65, 72 and 73
Tolerance == Rat(4, 100)
NearOne == Rat(96, 100)

\* n.toFixed(2) for n >= 0: two decimals, halves rounded up
ToFixed2(n) ==
    IF IsNaN(n) THEN "NaN"
    ELSE IF ~IsFinite(n) THEN "Infinity"
    ELSE LET h == (200 * n.n + n.d) \div (2 * n.d)
         IN NatToStr(h \div 100) \o "." \o DigitChar((h % 100) \div 10)
                \o DigitChar(h % 10)

IsZeroChar(c) == c = "0"

\* s.replace(/\.?0+$/, ''): drops the run of zeros ending s and a point
\* right before that run
StripTrailingZeros(s) ==
    LET z == SkipBack(IsZeroChar, s, Len(s))
    IN IF z = Len(s) THEN s
       ELSE IF z >= 1 /\ Char(s, z) = "." THEN SubSeq(s, 1, z - 1)
       ELSE SubSeq(s, 1, z)

\* least index i >= k with |frac - fractions[i].f| < 0.04, or 0 (lines 64-69)
RECURSIVE FirstCloseFraction(_, _)
FirstCloseFraction(frac, k) ==
    IF k > Len(fractions) THEN 0
    ELSE IF NumLess(NumAbs(NumSub(frac, fractions[k].f)), Tolerance) THEN k
    ELSE FirstCloseFraction(frac, k + 1)

\* '' + whole for the floor of a value >= 0
WholeToStr(whole) ==
    IF IsNaN(whole) THEN "NaN"
    ELSE IF ~IsFinite(whole) THEN "Infinity"
    ELSE NatToStr(whole.n)

\* lines 64-77, for whole and frac of n and the index i of the first table
\* fraction within the tolerance of frac (0 if none)
FormatParts(n, whole, frac, i) ==
    IF i # 0
    THEN (IF whole = IntNum(0) THEN fractions[i].g
          ELSE WholeToStr(whole) \o " " \o fractions[i].g)
    ELSE IF NumLess(frac, Tolerance) THEN WholeToStr(whole)
    ELSE IF NumLess(NearOne, frac) THEN WholeToStr(NumAdd(whole, IntNum(1)))
    ELSE StripTrailingZeros(ToFixed2(n))

formatQuantity(n) ==
    IF NumLeqZero(n) THEN "0"
    ELSE The({ FormatParts(n, NumFloor(n), frac, FirstCloseFraction(frac, 1)) :
                 frac \in {NumSub(n, NumFloor(n))} })

-----------------------------------------------------------------------------
(* Calculate, part_000:80-136 *)

\* [\d¼-¾⅐-⅞]
IsQtyChar(c) ==
    IsDigit(c) \/ c \in {U00BC, U00BD, U00BE, U2150, U2151, U2152, U2153,
                         U2154, U2155, U2156, U2157, U2158, U2159, U215A,
                         U215B, U215C, U215D, U215E}

\* (?:\s*\/\s*\d+) tried at position p: the position after it, 0 if it fails
SuffixEnd(s, p) ==
    LET d == SkipWhile(IsSpace, s, p)
        e == SkipWhile(IsSpace, s, d + 1)
        f == SkipWhile(IsDigit, s, e)
    IN IF Char(s, d) = "/" /\ f > e THEN f ELSE 0

\* (?:\s+[...]+(?:\s*\/\s*\d+)?) tried at position p: the ends the group can
\* have, in the order the backtracking matcher tries them (longest first)
SecondTokenEnds(s, p) ==
    LET w == SkipWhile(IsSpace, s, p)
        t == SkipWhile(IsQtyChar, s, w)
        x == SuffixEnd(s, t)
    IN IF w > p /\ t > w
       THEN (IF x # 0 THEN <<x>> ELSE <<>>) \o <<t>>
       ELSE <<>>

\* The ends group 1 of the pattern of line 118 can have, in the order the
\* matcher tries them: the first token is always the longest run (a shorter
\* one is followed by a character no later part of the pattern accepts),
\* then each optional part is tried present before absent.  p is the end of
\* the first token, x the end of its suffix (0 if it has none).
GroupEndsFrom(s, p, x) ==
    IF p = 1 THEN <<>>
    ELSE (IF x # 0 THEN SecondTokenEnds(s, x) \o <<x>> ELSE <<>>)
         \o SecondTokenEnds(s, p) \o <<p>>

GroupEnds(s) ==
    The({ The({ GroupEndsFrom(s, p, x) : x \in {SuffixEnd(s, p)} }) :
            p \in {SkipWhile(IsQtyChar, s, 1)} })

\* first end in the list followed by white space, 0 if none
RECURSIVE FirstFollowedBySpace(_, _)
FirstFollowedBySpace(s, ends) ==
    IF ends = <<>> THEN 0
    ELSE IF IsSpace(Char(s, Head(ends))) THEN Head(ends)
    ELSE FirstFollowedBySpace(s, Tail(ends))

\* the groups of a match whose group 1 ends before position e
MatchGroups(line, e) ==
    IF e = 0 THEN <<>>
    ELSE <<SubSeq(line, 1, e - 1),
           SubSeq(line, SkipWhile(IsSpace, line, e), Len(line))>>

\* line.match(/^(...)\s+(.*)/): <<group 1, group 2>>, or <<>> for null
QtyMatch(line) ==
    The({ MatchGroups(line, e) :
            e \in {FirstFollowedBySpace(line, GroupEnds(line))} })

\* lines 120-132 with the test of line 123 left out
PushedForNoNaNCheck(line, qtyMatch, ratio) ==
    IF qtyMatch # <<>>
    THEN The({ formatQuantity(scaled) \o " " \o qtyMatch[2] :
                 scaled \in {NumMul(parseQuantity(qtyMatch[1]), ratio)} })
    ELSE line

\* lines 120-132: what is pushed for a non-blank trimmed line
PushedFor(line, qtyMatch, ratio) ==
    IF qtyMatch # <<>>
    THEN The({ IF ~IsNaN(qty)
               THEN The({ formatQuantity(scaled) \o " " \o qtyMatch[2] :
                            scaled \in {NumMul(qty, ratio)} })
               ELSE line :
                 qty \in {parseQuantity(qtyMatch[1])} })
    ELSE line

\* the loop body of lines 110-132: what is pushed for one element of lines
ScaleLine(raw, ratio) ==
    The({ IF line = "" THEN ""
          ELSE The({ PushedFor(line, qtyMatch, ratio) :
                       qtyMatch \in {QtyMatch(line)} }) :
            line \in {Trim(raw)} })

\* a loop that pushes nothing for a blank line
RECURSIVE ScaleLinesSkipBlank(_, _)
ScaleLinesSkipBlank(lines, ratio) ==
    IF lines = <<>> THEN <<>>
    ELSE (IF Trim(Head(lines)) = "" THEN <<>>
          ELSE <<ScaleLine(Head(lines), ratio)>>)
         \o ScaleLinesSkipBlank(Tail(lines), ratio)

\* the loop of lines 109-133
RECURSIVE ScaleLines(_, _)
ScaleLines(lines, ratio) ==
    IF lines = <<>> THEN <<>>
    ELSE <<ScaleLine(Head(lines), ratio)>> \o ScaleLines(Tail(lines), ratio)

\* !v for a string
Falsy(v) == v = ""

\* a guard that forgets the test of the new serving count's sign
RejectedOldOnly(oldVal, newVal) ==
    \/ Falsy(oldVal) \/ Falsy(newVal)
    \/ \E oldServing \in {ParseFloat(oldVal)}, newServing \in {ParseFloat(newVal)} :
          IsNaN(oldServing) \/ IsNaN(newServing) \/ NumLeqZero(oldServing)

\* the guards of lines 84 and 92: TRUE when Calculate returns early
Rejected(oldVal, newVal) ==
    \/ Falsy(oldVal) \/ Falsy(newVal)
    \/ \E oldServing \in {ParseFloat(oldVal)}, newServing \in {ParseFloat(newVal)} :
          IsNaN(oldServing) \/ IsNaN(newServing)
          \/ NumLeqZero(oldServing) \/ NumLeqZero(newServing)

\* line 97
Ratio(oldVal, newVal) ==
    The({ NumDiv(newServing, oldServing) :
            oldServing \in {ParseFloat(oldVal)}, newServing \in {ParseFloat(newVal)} })

\* lines 100-135: the text written to the results field
ScaledText(areaValue, ratio) ==
    The({ IF text = "" THEN "" ELSE Join(ScaleLines(Split(text), ratio)) :
            text \in {Trim(areaValue)} })

\* showRatio, lines 138-146: what the ratio display shows
NoRatio == "none"
showRatio(show, ratio) ==
    IF show /\ IsFinite(ratio) /\ ratio.n # 0
    THEN ToFixed2(ratio) \o "x"
    ELSE NoRatio

Calculate ==
    /\ prevResults' = results
    /\ IF Rejected(oldField, newField)
       THEN /\ ratioShown' = showRatio(FALSE, NaN)
            /\ results' = results
            /\ lastCalc' = "rejected"
       ELSE \E ratio \in {Ratio(oldField, newField)} :
               /\ ratioShown' = showRatio(TRUE, ratio)
               /\ results' = ScaledText(area, ratio)
               /\ lastCalc' = IF Trim(area) = "" THEN "empty" ELSE "scaled"
    /\ UNCHANGED <<oldField, newField, area>>
    /\ UNCHANGED <<timerVars, rtVars, shopVars>>

\* clearAll, lines 148-154
clearAll ==
    /\ oldField' = ""
    /\ newField' = ""
    /\ area' = ""
    /\ results' = ""
    /\ ratioShown' = showRatio(FALSE, NaN)
    /\ lastCalc' = "none"
    /\ prevResults' = results
    /\ UNCHANGED <<timerVars, rtVars, shopVars>>

-----------------------------------------------------------------------------
(* Initial values of each page's state *)

\* null, as a value no setInterval handle equals (handles are positive)
NULL == 0

\* part_000:163-166; the three inputs show 00 and no alert is displayed
TimerInit ==
    /\ timerInterval = NULL
    /\ totalSeconds = 0
    /\ isRunning = FALSE
    /\ isPaused = FALSE
    /\ hoursField = "00"
    /\ minField = "00"
    /\ secField = "00"
    /\ live = {}
    /\ alertShown = FALSE
    /\ runState = "none"
    /\ startN = 0
    /\ ticks = 0
    /\ disturbed = FALSE
    /\ completions = 0

\* the multiplier page with empty fields
ScaleIdle ==
    /\ oldField = ""
    /\ newField = ""
    /\ area = ""
    /\ results = ""
    /\ ratioShown = NoRatio
    /\ lastCalc = "none"
    /\ prevResults = ""

RtIdle ==
    /\ rtWhole = 0
    /\ rtIdx = 1
    /\ rtText = ""
    /\ rtValue = NaN
    /\ rtPhase = "idle"

\* the shopping page with empty fields
ShopIdle ==
    /\ shopArea = ""
    /\ shopExclude = ""
    /\ shopItems = <<>>
    /\ clipboard = ""
    /\ shopPass = 0
    /\ firstInput = <<>>
    /\ firstItems = <<>>

-----------------------------------------------------------------------------
(* Kitchen timer, part_000:163-322 *)

\* pad, lines 168-170
pad(k) == (IF k < 10 THEN "0" ELSE "") \o NatToStr(k)

\* parseInt(str, 10) || 0 for a field holding digits (what pad writes);
\* anything that does not start with a digit gives NaN, hence 0
ParseIntOr0(str) ==
    The({ IF j = 1 THEN 0 ELSE DigitsToNat(SubSeq(str, 1, j - 1)) :
            j \in {SkipWhile(IsDigit, str, 1)} })

\* h * 3600 + m * 60 + s of the three inputs, lines 201-204 and 257-260
FieldSeconds(h, m, sec) ==
    ParseIntOr0(h) * 3600 + ParseIntOr0(m) * 60 + ParseIntOr0(sec)

\* setInterval(tick, 1000): the handle of the new schedule
NewHandle == CHOOSE h \in 1..(Cardinality(live) + 1) : h \notin live

\* clearInterval(h): the schedules left live (clearInterval(null) does nothing)
Cleared(h) == live \ {h}

\* the observers forget the last run once the inputs are edited
ForgetRun ==
    /\ runState' = (IF runState = "active" THEN "active" ELSE "none")
    /\ startN' = 0
    /\ ticks' = 0
    /\ disturbed' = FALSE
    /\ completions' = 0

\* val + delta clamped to 0..max, lines 184-187
Clamp(val, max) == IF val < 0 THEN 0 ELSE IF val > max THEN max ELSE val

MaxOf(field) == IF field = "hours" THEN 23 ELSE 59

\* the three inputs after adjustTime(field, delta)
AdjustedFields(field, delta) ==
    [hours |-> IF field = "hours"
               THEN pad(Clamp(ParseIntOr0(hoursField) + delta, MaxOf(field)))
               ELSE hoursField,
     min |-> IF field = "min"
             THEN pad(Clamp(ParseIntOr0(minField) + delta, MaxOf(field)))
             ELSE minField,
     sec |-> IF field = "sec"
             THEN pad(Clamp(ParseIntOr0(secField) + delta, MaxOf(field)))
             ELSE secField]

\* syncInputsToDisplay, lines 200-211, for the new values f of the inputs
syncInputsToDisplay(f) ==
    /\ hoursField' = f.hours
    /\ minField' = f.min
    /\ secField' = f.sec
    /\ totalSeconds' = FieldSeconds(f.hours, f.min, f.sec)
    /\ alertShown' = FALSE

\* adjustTime, lines 180-190
adjustTime(field, delta) ==
    /\ IF isRunning THEN UNCHANGED timerVars
       ELSE /\ syncInputsToDisplay(AdjustedFields(field, delta))
            /\ ForgetRun
            /\ UNCHANGED <<timerInterval, isRunning, isPaused, live>>
    /\ UNCHANGED <<scaleVars, rtVars, shopVars>>

\* setPreset, lines 192-198
setPreset(h, m, sec) ==
    /\ IF isRunning THEN UNCHANGED timerVars
       ELSE /\ syncInputsToDisplay([hours |-> pad(h), min |-> pad(m), sec |-> pad(sec)])
            /\ ForgetRun
            /\ UNCHANGED <<timerInterval, isRunning, isPaused, live>>
    /\ UNCHANGED <<scaleVars, rtVars, shopVars>>

\* the observers count one more tick delivered (up to cap)
CountTick(cap) == ticks' = (IF ticks < cap THEN ticks + 1 ELSE ticks)

\* the observers count one more completion notification (2 stands for more)
CountCompletion == completions' = (IF completions < 2 THEN completions + 1 ELSE 2)

\* tick whose completion branch forgets clearInterval
tickNoClear(cap) ==
    /\ IF totalSeconds <= 0
       THEN /\ live' = live
            /\ timerInterval' = NULL
            /\ isRunning' = FALSE
            /\ isPaused' = FALSE
            /\ alertShown' = TRUE
            /\ CountCompletion
            /\ runState' = "completed"
            /\ UNCHANGED totalSeconds
       ELSE /\ totalSeconds' = totalSeconds - 1
            /\ UNCHANGED <<timerInterval, isRunning, isPaused, live, alertShown,
                           runState, completions>>
    /\ CountTick(cap)
    /\ UNCHANGED <<hoursField, minField, secField, startN, disturbed>>
    /\ UNCHANGED <<scaleVars, rtVars, shopVars>>

\* tick, lines 213-241: the callback of a live schedule
tick(cap) ==
    /\ IF totalSeconds <= 0
       THEN /\ live' = Cleared(timerInterval)
            /\ timerInterval' = NULL
            /\ isRunning' = FALSE
            /\ isPaused' = FALSE
            /\ alertShown' = TRUE
            /\ CountCompletion
            /\ runState' = "completed"
            /\ UNCHANGED totalSeconds
       ELSE /\ totalSeconds' = totalSeconds - 1
            /\ UNCHANGED <<timerInterval, isRunning, isPaused, live, alertShown,
                           runState, completions>>
    /\ CountTick(cap)
    /\ UNCHANGED <<hoursField, minField, secField, startN, disturbed>>
    /\ UNCHANGED <<scaleVars, rtVars, shopVars>>

\* startTimer without the test of line 244
startTimerNoGuard ==
    /\ IF isPaused
       THEN /\ isPaused' = FALSE
            /\ timerInterval' = NewHandle
            /\ live' = live \cup {NewHandle}
            /\ UNCHANGED <<totalSeconds, isRunning, alertShown, runState,
                           startN, ticks, disturbed, completions>>
       ELSE \E total \in {FieldSeconds(hoursField, minField, secField)} :
            /\ totalSeconds' = total
            /\ IF total <= 0
               THEN UNCHANGED <<timerInterval, isRunning, isPaused, live,
                                alertShown, runState, startN, ticks,
                                disturbed, completions>>
               ELSE /\ isRunning' = TRUE
                    /\ isPaused' = FALSE
                    /\ alertShown' = FALSE
                    /\ timerInterval' = NewHandle
                    /\ live' = live \cup {NewHandle}
                    /\ runState' = "active"
                    /\ startN' = total
                    /\ ticks' = 0
                    /\ disturbed' = FALSE
                    /\ completions' = 0
    /\ UNCHANGED <<hoursField, minField, secField>>
    /\ UNCHANGED <<scaleVars, rtVars, shopVars>>

\* startTimer, lines 243-277
startTimer ==
    /\ IF isRunning /\ ~isPaused THEN UNCHANGED timerVars
       ELSE IF isPaused
       THEN /\ isPaused' = FALSE
            /\ timerInterval' = NewHandle
            /\ live' = live \cup {NewHandle}
            /\ UNCHANGED <<totalSeconds, isRunning, alertShown, runState,
                           startN, ticks, disturbed, completions,
                           hoursField, minField, secField>>
       ELSE \E total \in {FieldSeconds(hoursField, minField, secField)} :
            /\ totalSeconds' = total
            /\ IF total <= 0
               THEN UNCHANGED <<timerInterval, isRunning, isPaused, live,
                                alertShown, runState, startN, ticks,
                                disturbed, completions>>
               ELSE /\ isRunning' = TRUE
                    /\ isPaused' = FALSE
                    /\ alertShown' = FALSE
                    /\ timerInterval' = NewHandle
                    /\ live' = live \cup {NewHandle}
                    /\ runState' = "active"
                    /\ startN' = total
                    /\ ticks' = 0
                    /\ disturbed' = FALSE
                    /\ completions' = 0
            /\ UNCHANGED <<hoursField, minField, secField>>
    /\ UNCHANGED <<scaleVars, rtVars, shopVars>>

\* pauseTimer that forgets clearInterval
pauseTimerNoClear ==
    /\ IF ~isRunning \/ isPaused THEN UNCHANGED timerVars
       ELSE /\ live' = live
            /\ timerInterval' = NULL
            /\ isPaused' = TRUE
            /\ disturbed' = TRUE
            /\ UNCHANGED <<totalSeconds, isRunning, hoursField, minField,
                           secField, alertShown, runState, startN, ticks,
                           completions>>
    /\ UNCHANGED <<scaleVars, rtVars, shopVars>>

\* pauseTimer, lines 279-287
pauseTimer ==
    /\ IF ~isRunning \/ isPaused THEN UNCHANGED timerVars
       ELSE /\ live' = Cleared(timerInterval)
            /\ timerInterval' = NULL
            /\ isPaused' = TRUE
            /\ disturbed' = TRUE
            /\ UNCHANGED <<totalSeconds, isRunning, hoursField, minField,
                           secField, alertShown, runState, startN, ticks,
                           completions>>
    /\ UNCHANGED <<scaleVars, rtVars, shopVars>>

\* resetTimer, lines 289-308 (stopAlert, lines 310-322, included)
resetTimer ==
    /\ live' = Cleared(timerInterval)
    /\ timerInterval' = NULL
    /\ isRunning' = FALSE
    /\ isPaused' = FALSE
    /\ totalSeconds' = 0
    /\ hoursField' = "00"
    /\ minField' = "00"
    /\ secField' = "00"
    /\ alertShown' = FALSE
    /\ runState' = (IF runState = "active" THEN "reset" ELSE runState)
    /\ UNCHANGED <<startN, ticks, disturbed, completions>>
    /\ UNCHANGED <<scaleVars, rtVars, shopVars>>

-----------------------------------------------------------------------------
(* The timer as a state machine: the user presses the buttons in any       *)
(* order and the browser runs tick for a schedule that is live.            *)

\* the longest duration the model lets the user set, in seconds
MaxTotalSeconds == 61

Fields == {"hours", "min", "sec"}
Deltas == {-1, 1}
Presets == {<<0, 0, 0>>, <<0, 0, 3>>, <<0, 1, 0>>, <<0, 1, 1>>, <<1, 0, 0>>}

AdjustTime ==
    \E field \in Fields, delta \in Deltas :
        /\ \E f \in {AdjustedFields(field, delta)} :
               FieldSeconds(f.hours, f.min, f.sec) <= MaxTotalSeconds
        /\ adjustTime(field, delta)

SetPreset ==
    \E p \in Presets :
        /\ p[1] * 3600 + p[2] * 60 + p[3] <= MaxTotalSeconds
        /\ setPreset(p[1], p[2], p[3])

Tick == live # {} /\ tick(MaxTotalSeconds + 2)

TimerNext ==
    \/ AdjustTime
    \/ SetPreset
    \/ startTimer
    \/ pauseTimer
    \/ resetTimer
    \/ Tick

TimerSpecInit == TimerInit /\ ScaleIdle /\ RtIdle /\ ShopIdle

Spec == TimerSpecInit /\ [][TimerNext]_vars

\* setInterval keeps calling tick while the schedule is live
LiveSpec == Spec /\ WF_vars(Tick)

-----------------------------------------------------------------------------
(* Shopping list, Shopping.js *)

UpperCase == "ABCDEFGHIJKLMNOPQRSTUVWXYZ"
LowerCase == "abcdefghijklmnopqrstuvwxyz"

\* toLowerCase of one character
ToLowerChar(c) ==
    IF \E i \in 1..26 : Char(UpperCase, i) = c
    THEN Char(LowerCase, CHOOSE i \in 1..26 : Char(UpperCase, i) = c)
    ELSE c

RECURSIVE ToLowerFrom(_, _)
ToLowerFrom(str, i) ==
    IF i > Len(str) THEN ""
    ELSE ToLowerChar(Char(str, i)) \o ToLowerFrom(str, i + 1)

\* replace(/\s+/g, ' ') from position i on
RECURSIVE CollapseFrom(_, _)
CollapseFrom(str, i) ==
    IF i > Len(str) THEN ""
    ELSE IF IsSpace(Char(str, i))
         THEN " " \o CollapseFrom(str, SkipWhile(IsSpace, str, i))
         ELSE Char(str, i) \o CollapseFrom(str, i + 1)

\* normalizeItem, lines 4-7
normalizeItem(str) ==
    The({ Trim(c) : c \in {CollapseFrom(ToLowerFrom(str, 1), 1)} })

\* the words the alternation of lines 50-51 matches
UnitWords ==
    {"cup", "cups", "tbsp", "tsp", "oz", "lb", "lbs", "pound", "pounds",
     "ounce", "ounces", "quart", "quarts", "gallon", "gallons", "can", "cans",
     "package", "packages", "pkg", "bag", "bags", "bottle", "bottles",
     "jar", "jars", "bunch", "bunche", "bunchs", "bunches", "head", "heads",
     "clove", "cloves", "stalk", "stalks", "piece", "pieces", "slice",
     "slices", "stick", "sticks", "pinch", "pinche", "pinchs", "pinches",
     "dash", "dashe", "dashs", "dashes", "sm", "md", "lg", "small", "medium",
     "large"}

\* [\d\s\/\.]
IsQuantityPrefixChar(c) == IsDigit(c) \/ IsSpace(c) \/ c = "/" \/ c = "."

IsNotSpace(c) == c # "" /\ ~IsSpace(c)

\* str.replace(/^[\d\s\/\.]+\s*(cups?|...|large)\s+/i, '') of lines 50-51.
\* The class run is greedy and contains \s, so the unit word starts where
\* the longest run of class characters ends; it has to be followed by a
\* white space, so it is the whole word found there; \s+ takes every white
\* space after it.
IngredientPart(str) ==
    The({ IF u = 1 THEN str
          ELSE The({ IF e > Len(str) \/ ToLowerFrom(SubSeq(str, u, e - 1), 1) \notin UnitWords
                     THEN str
                     ELSE The({ SubSeq(str, r, Len(str)) :
                                  r \in {SkipWhile(IsSpace, str, e)} }) :
                     e \in {SkipWhile(IsNotSpace, str, u)} }) :
          u \in {SkipWhile(IsQuantityPrefixChar, str, 1)} })

\* the lower-case names every object inherits from Object.prototype with a
\* truthy value; a property read of line 42 finds them in the empty object
InheritedKeys == {"constructor", "__proto__"}

\* excludeSet[key] of line 42, own being the keys line 30 has assigned
HasProperty(own, key) == key \in own \/ key \in InheritedKeys

\* the non-blank lines of a text, trimmed: lines 16-21 and 26-29
RECURSIVE NonBlankFrom(_, _)
NonBlankFrom(lines, i) ==
    IF i > Len(lines) THEN <<>>
    ELSE \* bind the trimmed line once
         The({ (IF t = "" THEN <<>> ELSE <<t>>) \o NonBlankFrom(lines, i + 1) :
                 t \in {Trim(lines[i])} })

NonBlankLines(text) ==
    The({ NonBlankFrom(ls, 1) : ls \in {Split(text)} })

\* lines 24-33: the keys assigned to excludeSet; an assignment to __proto__
\* of a value that is not an object adds no key
ExcludeKeys(excludeText) ==
    IF excludeText = "" THEN {}
    ELSE The({ {normalizeItem(ls[j]) : j \in 1..Len(ls)} \ {"__proto__"} :
                 ls \in {NonBlankLines(excludeText)} })

\* lines 46-57: some key of excludeSet has the item's ingredient name
IngredientMatch(normalized, own) ==
    \E ingredientPart \in {IngredientPart(normalized)} :
        /\ ingredientPart # ""
        /\ \E exKey \in own :
               \E exIngredient \in {IngredientPart(exKey)} :
                   exIngredient # "" /\ ingredientPart = exIngredient

\* lines 38-57: the value of excluded for one item
Excluded(item, own) ==
    \E normalized \in {normalizeItem(item)} :
        HasProperty(own, normalized) \/ IngredientMatch(normalized, own)

\* a filter that removes from the list in place, item k + 1 taking the
\* place of a removed item k and so escaping the test
RECURSIVE FilterInPlace(_, _, _)
FilterInPlace(items, own, k) ==
    IF k > Len(items) THEN <<>>
    ELSE IF Excluded(items[k], own)
         THEN (IF k + 1 <= Len(items) THEN <<items[k + 1]>> ELSE <<>>)
              \o FilterInPlace(items, own, k + 2)
         ELSE <<items[k]>> \o FilterInPlace(items, own, k + 1)

\* lines 35-62: finalItems from item k on
RECURSIVE FilterFrom(_, _, _)
FilterFrom(items, own, k) ==
    IF k > Len(items) THEN <<>>
    ELSE (IF Excluded(items[k], own) THEN <<>> ELSE <<items[k]>>)
         \o FilterFrom(items, own, k + 1)

\* escapeHtml, lines 86-90: the serialisation of a text node
RECURSIVE escapeHtmlFrom(_, _)
escapeHtmlFrom(text, i) ==
    IF i > Len(text) THEN ""
    ELSE (CASE Char(text, i) = "&" -> "&amp;"
            [] Char(text, i) = "<" -> "&lt;"
            [] Char(text, i) = ">" -> "&gt;"
            [] OTHER -> Char(text, i))
         \o escapeHtmlFrom(text, i + 1)

escapeHtml(text) == escapeHtmlFrom(text, 1)

\* textContent of an element whose innerHTML was set to html (line 104 after
\* line 82): the character references are decoded
RECURSIVE TextContentFrom(_, _)
TextContentFrom(html, i) ==
    IF i > Len(html) THEN ""
    ELSE IF SubSeq(html, i, IF i + 4 <= Len(html) THEN i + 4 ELSE Len(html)) = "&amp;"
         THEN "&" \o TextContentFrom(html, i + 5)
    ELSE IF SubSeq(html, i, IF i + 3 <= Len(html) THEN i + 3 ELSE Len(html)) = "&lt;"
         THEN "<" \o TextContentFrom(html, i + 4)
    ELSE IF SubSeq(html, i, IF i + 3 <= Len(html) THEN i + 3 ELSE Len(html)) = "&gt;"
         THEN ">" \o TextContentFrom(html, i + 4)
    ELSE Char(html, i) \o TextContentFrom(html, i + 1)

\* the texts of the .shopping-item elements lines 78-82 create
ItemElements(finalItems) ==
    [m \in 1..Len(finalItems) |-> TextContentFrom(escapeHtml(finalItems[m]), 1)]

\* createList, lines 9-84 (Check, line 119, calls it)
createList ==
    /\ \E recipeText \in {Trim(shopArea)} :
         IF recipeText = "" THEN UNCHANGED shopVars
         ELSE \E items \in {NonBlankLines(recipeText)} :
              \E own \in {ExcludeKeys(Trim(shopExclude))} :
              \E finalItems \in {FilterFrom(items, own, 1)} :
                /\ shopItems' = ItemElements(finalItems)
                /\ shopPass' = (IF shopPass = 0 THEN 1
                                ELSE IF shopPass = 2 THEN 3 ELSE shopPass)
                /\ firstInput' = (IF shopPass = 0 THEN items ELSE firstInput)
                /\ firstItems' = (IF shopPass = 0 THEN ItemElements(finalItems)
                                  ELSE firstItems)
                /\ UNCHANGED <<shopArea, shopExclude, clipboard>>
    /\ UNCHANGED <<timerVars, scaleVars, rtVars>>

\* clearShoppingList, lines 92-97: the results element keeps its content
clearShoppingList ==
    /\ shopArea' = ""
    /\ shopExclude' = ""
    /\ shopPass' = 0
    /\ firstInput' = <<>>
    /\ firstItems' = <<>>
    /\ UNCHANGED <<shopItems, clipboard>>
    /\ UNCHANGED <<timerVars, scaleVars, rtVars>>

\* lines 102-105
RECURSIVE CopyText(_, _)
CopyText(items, i) ==
    IF i > Len(items) THEN ""
    ELSE items[i] \o "\n" \o CopyText(items, i + 1)

\* copyList, lines 99-116
copyList ==
    /\ clipboard' = CopyText(shopItems, 1)
    /\ UNCHANGED <<shopArea, shopExclude, shopItems, shopPass, firstInput,
                   firstItems>>
    /\ UNCHANGED <<timerVars, scaleVars, rtVars>>

\* the user pastes the clipboard over the content of the recipe field
PasteList ==
    /\ shopArea' = clipboard
    /\ shopPass' = (IF shopPass \in {1, 3} /\ clipboard = CopyText(shopItems, 1)
                    THEN 2 ELSE IF shopPass = 2 THEN 2 ELSE 0)
    /\ UNCHANGED <<shopExclude, shopItems, clipboard, firstInput, firstItems>>
    /\ UNCHANGED <<timerVars, scaleVars, rtVars>>

-----------------------------------------------------------------------------
(* The shopping list as a state machine: the user has filled the two text  *)
(* fields and then presses the buttons in any order.                       *)

MaxItems == 3
MaxExclusions == 1

ItemVocabulary == { "", "2 cups flour", "1  Egg", "constructor", "s&p" }
ExclusionVocabulary == { "", "1 lb flour", "1 egg" }

RECURSIVE TextsOf(_, _)
TextsOf(vocabulary, k) ==
    IF k = 1 THEN vocabulary
    ELSE { t \o "\n" \o l : t \in TextsOf(vocabulary, k - 1), l \in vocabulary }

ShopInit ==
    /\ shopArea \in UNION { TextsOf(ItemVocabulary, k) : k \in 1..MaxItems }
    /\ shopExclude \in UNION { TextsOf(ExclusionVocabulary, k) : k \in 1..MaxExclusions }
    /\ shopItems = <<>>
    /\ clipboard = ""
    /\ shopPass = 0
    /\ firstInput = <<>>
    /\ firstItems = <<>>
    /\ TimerInit /\ ScaleIdle /\ RtIdle

ShopNext == createList \/ copyList \/ PasteList \/ clearShoppingList

ShopSpec == ShopInit /\ [][ShopNext]_vars

-----------------------------------------------------------------------------
(* The recipe multiplier as a state machine: the user has filled the three *)
(* fields, the results field holds what an earlier calculation left there. *)

MaxLines == 3

LineVocabulary ==
    { "", " ", " a ", "1 2", "1/2 a", "1 1/2  a", "2@ a", "[ a" }

RECURSIVE TextsOfLines(_)
TextsOfLines(k) ==
    IF k = 1 THEN LineVocabulary
    ELSE {t \o "\n" \o l : t \in TextsOfLines(k - 1), l \in LineVocabulary}

AreaTexts == UNION {TextsOfLines(k) : k \in 1..MaxLines}

\* <<old, new>> serving counts: missing, zero, negative, not a number, valid
ServingPairs ==
    { <<"", "1">>, <<"2", "">>, <<"0", "1">>, <<"2", "-1">>, <<"a", "1">>,
      <<"2", "b">>, <<"2", "1">>, <<"2", "3">> }

\* what an earlier calculation left in the results field
EarlierResults == {"9 z"}

ScaleInit ==
    /\ \E pair \in ServingPairs : oldField = pair[1] /\ newField = pair[2]
    /\ area \in AreaTexts
    /\ results \in EarlierResults
    /\ ratioShown = NoRatio
    /\ lastCalc = "none"
    /\ prevResults = results
    /\ TimerInit /\ RtIdle /\ ShopIdle

ScaleNext == Calculate \/ clearAll

ScaleSpec == ScaleInit /\ [][ScaleNext]_vars

-----------------------------------------------------------------------------
(* Formatting a table fraction plus a whole number, then parsing the text *)

MaxWhole == 12

RtInit ==
    /\ rtWhole \in 0..MaxWhole
    /\ rtIdx \in 1..Len(fractions)
    /\ rtText = ""
    /\ rtValue = NaN
    /\ rtPhase = "input"
    /\ TimerInit /\ ScaleIdle /\ ShopIdle

RtInput == NumAdd(IntNum(rtWhole), fractions[rtIdx].f)

RtFormat ==
    /\ rtPhase = "input"
    /\ rtText' = formatQuantity(RtInput)
    /\ rtPhase' = "formatted"
    /\ UNCHANGED <<rtWhole, rtIdx, rtValue>>
    /\ UNCHANGED <<timerVars, scaleVars, shopVars>>

RtParse ==
    /\ rtPhase = "formatted"
    /\ rtValue' = parseQuantity(rtText)
    /\ rtPhase' = "parsed"
    /\ UNCHANGED <<rtWhole, rtIdx, rtText>>
    /\ UNCHANGED <<timerVars, scaleVars, shopVars>>

RtNext == RtFormat \/ RtParse

RoundTripSpec == RtInit /\ [][RtNext]_vars

-----------------------------------------------------------------------------
(* Properties of the recipe multiplier *)

\* a serving count that is present, a number, and strictly positive
StrictlyPositive(v) ==
    v # "" /\ IsFinite(ParseFloat(v)) /\ ParseFloat(v).n > 0

AllChars(P(_), t) == \A i \in 1..Len(t) : P(Char(t, i))

\* "/digits" with optional white space before and after the slash
IsFractionSuffix(u) ==
    \E a \in 1..Len(u), b \in 1..Len(u) :
        /\ a < b
        /\ Char(u, a) = "/"
        /\ AllChars(IsSpace, SubSeq(u, 1, a - 1))
        /\ AllChars(IsSpace, SubSeq(u, a + 1, b - 1))
        /\ AllChars(IsDigit, SubSeq(u, b, Len(u)))

\* one or more digits or fraction glyphs, optionally followed by a suffix
IsSimpleToken(t) ==
    \E k \in 1..Len(t) :
        /\ AllChars(IsQtyChar, SubSeq(t, 1, k))
        /\ k = Len(t) \/ IsFractionSuffix(SubSeq(t, k + 1, Len(t)))

\* a quantity token: a simple token, optionally followed by white space and
\* a second simple token
IsQuantityToken(t) ==
    \/ IsSimpleToken(t)
    \/ \E k \in 1..Len(t), m \in 1..Len(t) :
          /\ k + 1 < m
          /\ IsSimpleToken(SubSeq(t, 1, k))
          /\ AllChars(IsSpace, SubSeq(t, k + 1, m - 1))
          /\ IsSimpleToken(SubSeq(t, m, Len(t)))

\* the line starts with a quantity token followed by white space
HasLeadingQuantity(line) ==
    \E e \in 1..Len(line) :
        IsQuantityToken(SubSeq(line, 1, e)) /\ IsSpace(Char(line, e + 1))

\* token, white space and remainder make up the line
SplitsLine(line, m) ==
    /\ IsQuantityToken(m[1])
    /\ Len(m[1]) + Len(m[2]) < Len(line)
    /\ SubSeq(line, 1, Len(m[1])) = m[1]
    /\ SubSeq(line, Len(line) - Len(m[2]) + 1, Len(line)) = m[2]
    /\ AllChars(IsSpace, SubSeq(line, Len(m[1]) + 1, Len(line) - Len(m[2])))

\* C4: Calculate rejects the whole operation when either serving count is
\* missing, not a number or not strictly positive, leaving the results text
\* as it was; otherwise it scales with ratio = new / old.
C4_RejectsBadServings ==
    lastCalc # "none" =>
        IF StrictlyPositive(oldField) /\ StrictlyPositive(newField)
        THEN LET ratio == NumDiv(ParseFloat(newField), ParseFloat(oldField))
             IN /\ lastCalc \in {"scaled", "empty"}
                /\ ratioShown = ToFixed2(ratio) \o "x"
                /\ results = ScaledText(area, ratio)
        ELSE /\ lastCalc = "rejected"
             /\ results = prevResults
             /\ ratioShown = NoRatio

\* a rejected calculation on a text with a quantity line, with an earlier
\* result on display
C4_Witness ==
    /\ lastCalc = "rejected"
    /\ oldField = "2" /\ newField = "-1"
    /\ results = "9 z"
    /\ \E i \in 1..Len(Split(area)) : HasLeadingQuantity(Split(area)[i])

\* C5 as stated: the output has one line per line of the input text, blank
\* lines (leading and trailing ones included) staying where they are.
C5_LineForLine ==
    lastCalc = "scaled" =>
        LET ins == Split(area)
            outs == Split(results)
        IN /\ Len(outs) = Len(ins)
           /\ \A i \in 1..Len(ins) : Trim(ins[i]) = "" => outs[i] = ""

\* C5 (amended): the output has one line per line of the input text trimmed
\* of its leading and trailing white space, and every blank line of the
\* trimmed text is an empty line at the same position.
C5_LineForTrimmedLine ==
    lastCalc \in {"scaled", "empty"} =>
        LET ins == Split(Trim(area))
            outs == Split(results)
        IN /\ Len(outs) = Len(ins)
           /\ \A i \in 1..Len(ins) : Trim(ins[i]) = "" <=> outs[i] = ""

\* a scaled text that had white space to trim and keeps a blank line inside
C5_Witness ==
    /\ lastCalc = "scaled"
    /\ area # Trim(area)
    /\ Len(Split(Trim(area))) = 3
    /\ Split(results)[2] = ""
    /\ Split(results)[1] # "" /\ Split(results)[3] # ""

-----------------------------------------------------------------------------
(* Property of the quantity round trip *)

\* C9: for each table fraction f and whole number w, parsing the text that
\* formatQuantity gives for w + f yields a value within 0.04 of w + f.
C9_RoundTrip ==
    rtPhase = "parsed" =>
        NumLess(NumAbs(NumSub(rtValue, RtInput)), Tolerance)

\* the ASCII entry 5/6 with no whole part, formatted and parsed back
C9_Witness ==
    /\ rtPhase = "parsed"
    /\ rtWhole = 0
    /\ fractions[rtIdx].g = "5/6"
    /\ rtText = "5/6"
    /\ rtValue = Rat(5, 6)

\* a glyph entry with a two-digit whole part, formatted and parsed back
C9_WitnessMixed ==
    /\ rtPhase = "parsed"
    /\ rtWhole = 12
    /\ rtText = "12 " \o U2153
    /\ rtValue = Rat(37, 3)


-----------------------------------------------------------------------------
(* Claims about the kitchen timer *)

\* a run that was started and neither paused nor reset so far
UndisturbedRun == runState \in {"active", "completed"} /\ ~disturbed /\ startN > 0

\* C1: a run started with N > 0 seconds and neither paused nor reset has its
\* count at 0 after exactly N ticks, and that N-th tick is the one that
\* cancels the schedule and fires the completion notification.
C1_CompletesOnNthTick ==
    (UndisturbedRun /\ ticks = startN) =>
        /\ totalSeconds = 0
        /\ runState = "completed"
        /\ completions = 1
        /\ live = {}

\* what the code does instead: the completion comes with tick N + 1
C1_CompletesOnNextTick ==
    UndisturbedRun =>
        /\ ticks <= startN => (runState = "active" /\ completions = 0 /\ live # {}
                               /\ totalSeconds = startN - ticks)
        /\ ticks > startN => (ticks = startN + 1 /\ runState = "completed"
                              /\ completions = 1 /\ live = {} /\ totalSeconds = 0)

\* C2: the completion notification fires at most once per run; a run that
\* was reset gets none; once a run is completed or reset no tick is delivered
\* until the next start; and a run whose ticks keep being delivered (it is
\* not left paused and not reset) gets its completion.
C2_CompletionOnce ==
    /\ [](completions <= 1)
    /\ [](runState = "reset" => completions = 0)
    /\ [](runState = "completed" => completions = 1)
    /\ [][(runState \in {"completed", "reset", "none"}) => (~Tick)]_vars
    /\ (runState = "active" /\ ~isPaused) ~>
           (runState \in {"completed", "reset"} \/ isPaused)

C2_Witness ==
    /\ runState = "completed"
    /\ completions = 1
    /\ disturbed
    /\ startN = 3
    /\ ticks = 4

C2_WitnessReset ==
    /\ runState = "reset"
    /\ startN = 3
    /\ ticks = 3
    /\ completions = 0

\* C3: from the step where pauseTimer takes effect until startTimer resumes,
\* no tick is delivered and nothing but resetTimer changes totalSeconds, so
\* the count after the resume is the count at the pause.
C3_PausePreservesCount ==
    [][(isPaused /\ ~resetTimer) =>
           (totalSeconds' = totalSeconds /\ ticks' = ticks /\ ~Tick)]_vars

\* resumed after a pause, with the count still the start minus the ticks
C3_Witness ==
    /\ runState = "active"
    /\ disturbed
    /\ isRunning
    /\ ~isPaused
    /\ startN = 3
    /\ ticks = 2
    /\ totalSeconds = 1

\* C10: at most one schedule is live; timerInterval is non-null exactly when
\* the timer is running and not paused, and is then the live schedule; a
\* paused timer is a running one.
C10_OneSchedule ==
    /\ Cardinality(live) <= 1
    /\ (timerInterval # NULL) <=> (isRunning /\ ~isPaused)
    /\ isPaused => isRunning
    /\ live = (IF timerInterval = NULL THEN {} ELSE {timerInterval})

\* running again after a pause and a resume
C10_Witness ==
    /\ isRunning
    /\ ~isPaused
    /\ disturbed
    /\ timerInterval # NULL
    /\ live = {timerInterval}
    /\ ticks = 1


-----------------------------------------------------------------------------
(* Claims about the shopping list *)

\* the list was made from what the two fields hold now
ListIsCurrent == shopPass \in {1, 3}

\* the exclusion rule as stated: (a) equal normalized forms, or (b) equal
\* non-empty ingredient keys, for some exclusion line
ExcludedByRule(item, exclusions) ==
    \E j \in 1..Len(exclusions) :
        \/ normalizeItem(item) = normalizeItem(exclusions[j])
        \/ /\ IngredientPart(normalizeItem(item)) # ""
           /\ IngredientPart(normalizeItem(item))
                  = IngredientPart(normalizeItem(exclusions[j]))

RECURSIVE KeptByRule(_, _, _)
KeptByRule(items, exclusions, k) ==
    IF k > Len(items) THEN <<>>
    ELSE (IF ExcludedByRule(items[k], exclusions) THEN <<>> ELSE <<items[k]>>)
         \o KeptByRule(items, exclusions, k + 1)

\* C7: the list is exactly the non-blank items, in order and with their
\* duplicates, that no exclusion line excludes by rule (a) or rule (b); with
\* no exclusion line every item is on the list.
C7_ListIsItemsNotExcluded ==
    ListIsCurrent =>
        shopItems = KeptByRule(NonBlankLines(shopArea),
                               NonBlankLines(shopExclude), 1)

\* C8: making the list again from the list itself, with the same
\* exclusions, gives the same list.
C8_FilterIdempotent ==
    shopPass = 3 => shopItems = firstItems

\* the second pass ran on a list from which the first had removed an item
C8_Witness ==
    /\ shopPass = 3
    /\ shopExclude = "1 lb flour"
    /\ firstInput = <<"2 cups flour", "2 cups flour", "s&p">>
    /\ firstItems = <<"s&p">>
    /\ shopItems = <<"s&p">>

=============================================================================
